---- MODULE Spec2Model ----
(***************************************************************************)
(* A model of the WebDAV-over-R2 worker (src/worker.js).                   *)
(*                                                                         *)
(* Strings are sequences of tokens.  A token of a URL path is one of       *)
(*   "/"      a literal slash                                              *)
(*   "a"      an unreserved character                                      *)
(*   "%2F"    a percent-encoded slash                                      *)
(*   "%"      a percent sign that starts no valid escape                   *)
(*   "zotero", "other"   a whole path segment (never part of a key)        *)
(* and a token of a decoded key is "/" or "a".                             *)
(*                                                                         *)
(* Spec, SpecDav and SpecAuth serve requests one after another, each in    *)
(* one step; SpecMove serves one MOVE a bucket call at a time, with calls  *)
(* that may throw and other requests served between them.                  *)
(***************************************************************************)
EXTENDS Integers, Sequences, FiniteSets, TLC

VARIABLES
    store,    \* the R2 bucket: a function from the keys that hold an object to the object
    pre,      \* the bucket as it was when the last request arrived
    req,      \* the last request served
    resp,     \* the response to it
    ops,      \* the bucket calls the last request made, in order
    pc,       \* where a MOVE served call by call stands: idle, get, put, delete, done
    got,      \* what that MOVE's get returned
    served    \* the requests served beside that MOVE, each with its response

vars == <<store, pre, req, resp, ops, pc, got, served>>

\* JS null / undefined
Null == [null |-> TRUE]

\* headers.get() of a header the request does not carry
Absent == "<absent>"

\* ------------------------------------------------------------------ bounds

\* the bucket holds at most this many objects
MaxObjects == 2

\* ------------------------------------------------------------------ strings

StartsWith(s, p) == Len(s) >= Len(p) /\ SubSeq(s, 1, Len(p)) = p

EndsWith(s, p) == Len(s) >= Len(p) /\ SubSeq(s, Len(s) - Len(p) + 1, Len(s)) = p

\* the index of the first ch in s, 0 when there is none (JS indexOf gives -1)
IndexOf(s, ch) ==
    IF \E i \in 1..Len(s) : s[i] = ch
    THEN CHOOSE i \in 1..Len(s) : s[i] = ch /\ \A j \in 1..(i - 1) : s[j] # ch
    ELSE 0

\* ------------------------------------------------------------------ paths

\* the literal "/zotero/"
Namespace == <<"/", "zotero", "/">>

\* pathname.replace(/^\/zotero\//, "")
StripNamespace(p) ==
    IF StartsWith(p, Namespace) THEN SubSeq(p, Len(Namespace) + 1, Len(p)) ELSE p

\* s.replace(/^\/+/, ""): literal slashes only, an encoded one is left alone
RECURSIVE StripLeadingSlashes(_)
StripLeadingSlashes(s) ==
    IF Len(s) > 0 /\ s[1] = "/" THEN StripLeadingSlashes(Tail(s)) ELSE s

\* decodeURIComponent throws URIError on a malformed escape
Malformed(s) == \E i \in 1..Len(s) : s[i] = "%"

DecodeURIComponent(s) == [i \in 1..Len(s) |-> IF s[i] = "%2F" THEN "/" ELSE s[i]]

\* the bucket key of a pathname under the namespace (decodable or not is the caller's check)
ResolveKey(pathname) ==
    DecodeURIComponent(StripLeadingSlashes(StripNamespace(pathname)))

ResolveThrows(pathname) ==
    Malformed(StripLeadingSlashes(StripNamespace(pathname)))

\* ------------------------------------------------------------------ auth

\* env.WEBDAV_USER, env.WEBDAV_PASS
WEBDAV_USER == <<"u">>
WEBDAV_PASS == <<"p">>

\* An Authorization header is [kind, scheme, encoded]: kind "absent" (headers.get gives
\* null), "empty" (the empty string) or "value", the text "<scheme> <encoded>".
NoAuth == [kind |-> "absent", scheme |-> "", encoded |-> ""]
EmptyAuth == [kind |-> "empty", scheme |-> "", encoded |-> ""]
AuthValue(scheme, encoded) == [kind |-> "value", scheme |-> scheme, encoded |-> encoded]

\* the base64 texts atob() accepts, with what they decode to; it throws on any other
Base64 ==
    [e \in {"dTpw", "dTp4", "eDpw", "dXA=", "dTpwOnA=", ""} |->
        CASE e = "dTpw"     -> <<"u", ":", "p">>
          [] e = "dTp4"     -> <<"u", ":", "x">>
          [] e = "eDpw"     -> <<"x", ":", "p">>
          [] e = "dXA="     -> <<"u", "p">>
          [] e = "dTpwOnA=" -> <<"u", ":", "p", ":", "p">>
          [] e = ""         -> <<>>]

AtobThrows(e) == e \notin DOMAIN Base64

Atob(e) == Base64[e]

\* checkAuth with || for &&: one matching half is enough
EitherMatches(authHeader) ==
    IF authHeader.scheme # "Basic" THEN FALSE
    ELSE IF AtobThrows(authHeader.encoded) THEN FALSE
    ELSE LET decoded == Atob(authHeader.encoded)
             sep == IndexOf(decoded, ":")
         IN  IF sep = 0 THEN FALSE
             ELSE \/ SubSeq(decoded, 1, sep - 1) = WEBDAV_USER
                  \/ SubSeq(decoded, sep + 1, Len(decoded)) = WEBDAV_PASS

checkAuth(authHeader) ==
    IF authHeader.scheme # "Basic" THEN FALSE            \* !startsWith("Basic ")
    ELSE IF AtobThrows(authHeader.encoded) THEN FALSE     \* catch { return false }
    ELSE LET decoded == Atob(authHeader.encoded)
             sep == IndexOf(decoded, ":")
         IN  IF sep = 0 THEN FALSE
             ELSE LET user == SubSeq(decoded, 1, sep - 1)
                      pass == SubSeq(decoded, sep + 1, Len(decoded))
                  IN  user = WEBDAV_USER /\ pass = WEBDAV_PASS

\* if (!auth || !checkAuth(auth, env))
Authenticated(r) ==
    /\ r.auth.kind = "value"
    /\ checkAuth(r.auth)

\* ------------------------------------------------------------------ the bucket

\* the content fingerprint R2 assigns on a write
Etag(body) == [md5 |-> body]

NewObject(key, body) ==
    [key |-> key, body |-> body, size |-> Len(body), etag |-> Etag(body)]

\* R2 refuses the empty object name: the call throws
ValidKey(k) == Len(k) > 0

StoreGet(s, k) == IF k \in DOMAIN s THEN s[k] ELSE Null

StorePut(s, k, body) ==
    [x \in (DOMAIN s) \cup {k} |-> IF x = k THEN NewObject(k, body) ELSE s[x]]

StoreDelete(s, k) == [x \in (DOMAIN s) \ {k} |-> s[x]]

\* every order of a set as a sequence
Orderings(S) ==
    {f \in [1..Cardinality(S) -> S] : \A i, j \in 1..Cardinality(S) : i # j => f[i] # f[j]}

\* BUCKET.list({prefix}): every object whose key starts with prefix, at any depth, in
\* an order the worker does not choose
StoreList(s, prefix) ==
    Orderings({s[k] : k \in {x \in DOMAIN s : StartsWith(x, prefix)}})

Call(op, key) == [op |-> op, key |-> key]

\* the single list call, with what the bucket returned
ListCall(prefix, listing) == [op |-> "list", key |-> prefix, result |-> listing]

\* ------------------------------------------------------------------ responses

NoHeaders == [h \in {} |-> Null]

NoBody == [kind |-> "none"]
Text(t) == [kind |-> "text", text |-> t]
Bytes(b) == [kind |-> "bytes", bytes |-> b]

Response(status, headers, body) == [status |-> status, headers |-> headers, body |-> body]

\* an exception no handler catches: the runtime answers with a server error
Unhandled(what) == Response(500, NoHeaders, [kind |-> "exception", text |-> what])

\* what a handler did: its response, the bucket after it, the bucket calls it made
Result(r, s, o) == [resp |-> r, store |-> s, ops |-> o]

\* ------------------------------------------------------------------ handlers

ObjectHeaders(obj) == ("Content-Length" :> obj.size) @@ ("ETag" :> obj.etag)

handleGetHead(s, key, method) ==
    IF ~ValidKey(key) THEN Result(Unhandled("R2"), s, <<Call("get", key)>>)
    ELSE LET obj == StoreGet(s, key)
         IN  IF obj = Null
             THEN Result(Response(404, NoHeaders, Text("Not Found")), s, <<Call("get", key)>>)
             ELSE IF method = "HEAD"
             THEN Result(Response(200, ObjectHeaders(obj), NoBody), s, <<Call("get", key)>>)
             ELSE Result(Response(200, ObjectHeaders(obj), Bytes(obj.body)), s,
                         <<Call("get", key)>>)

\* handlePut storing an already consumed (empty) body
PutEmptyBody(s, key, request) ==
    IF ~ValidKey(key) THEN Result(Unhandled("R2"), s, <<Call("put", key)>>)
    ELSE Result(Response(201, NoHeaders, NoBody), StorePut(s, key, <<>>), <<Call("put", key)>>)

handlePut(s, key, request) ==
    IF ~ValidKey(key) THEN Result(Unhandled("R2"), s, <<Call("put", key)>>)
    ELSE Result(Response(201, NoHeaders, NoBody), StorePut(s, key, request.body),
                <<Call("put", key)>>)

\* A Destination header is [kind, pathname]: kind "absent", "empty" (both falsy),
\* "relative" (new URL(dest) throws TypeError) or "absolute" (a URL with that pathname).
NoDest == [kind |-> "absent", pathname |-> <<>>]
EmptyDest == [kind |-> "empty", pathname |-> <<>>]
RelativeDest == [kind |-> "relative", pathname |-> <<>>]
DestUrl(pathname) == [kind |-> "absolute", pathname |-> pathname]

\* DestinationError without the namespace check on the destination
DestinationUnchecked(request) ==
    LET dest == request.dest
    IN  IF dest.kind \in {"absent", "empty"} THEN Response(400, NoHeaders, Text("Bad Request"))
        ELSE IF dest.kind = "relative" THEN Unhandled("TypeError")
        ELSE IF ResolveThrows(dest.pathname) THEN Unhandled("URIError")
        ELSE Null

\* the checks handleMove and handleCopy make before the first bucket call: the
\* response that ends the request there, or Null when the destination key is resolved
DestinationError(request) ==
    LET dest == request.dest
    IN  IF dest.kind \in {"absent", "empty"} THEN Response(400, NoHeaders, Text("Bad Request"))
        ELSE IF dest.kind = "relative" THEN Unhandled("TypeError")
        ELSE IF ~StartsWith(dest.pathname, Namespace)
        THEN Response(403, NoHeaders, Text("Forbidden"))
        ELSE IF ResolveThrows(dest.pathname) THEN Unhandled("URIError")
        ELSE Null

\* handleMove that honours "Overwrite: F" for every request: 412 when the
\* destination holds an object
MoveKeepsDestination(s, srcKey, request) ==
    IF DestinationError(request) # Null THEN Result(DestinationError(request), s, <<>>)
    ELSE LET destKey == ResolveKey(request.dest.pathname)
             read == <<Call("get", srcKey)>>
             obj == StoreGet(s, srcKey)
         IN  IF ~ValidKey(srcKey) THEN Result(Unhandled("R2"), s, read)
             ELSE IF obj = Null
             THEN Result(Response(404, NoHeaders, Text("Not Found")), s, read)
             ELSE IF ~ValidKey(destKey)
             THEN Result(Unhandled("R2"), s, read \o <<Call("get", destKey)>>)
             ELSE IF StoreGet(s, destKey) # Null
             THEN Result(Response(412, NoHeaders, Text("Precondition Failed")), s,
                         read \o <<Call("get", destKey)>>)
             ELSE Result(Response(201, NoHeaders, NoBody),
                         StoreDelete(StorePut(s, destKey, obj.body), srcKey),
                         read \o <<Call("get", destKey), Call("put", destKey),
                                   Call("delete", srcKey)>>)

handleMove(s, srcKey, request) ==
    IF DestinationError(request) # Null THEN Result(DestinationError(request), s, <<>>)
    ELSE LET destKey == ResolveKey(request.dest.pathname)
             read == <<Call("get", srcKey)>>
             obj == StoreGet(s, srcKey)
         IN  IF ~ValidKey(srcKey) THEN Result(Unhandled("R2"), s, read)
             ELSE IF obj = Null
             THEN Result(Response(404, NoHeaders, Text("Not Found")), s, read)
             ELSE IF ~ValidKey(destKey)
             THEN Result(Unhandled("R2"), s, read \o <<Call("put", destKey)>>)
             ELSE Result(Response(201, NoHeaders, NoBody),
                         StoreDelete(StorePut(s, destKey, obj.body), srcKey),
                         read \o <<Call("put", destKey), Call("delete", srcKey)>>)

\* handleCopy pasted from handleMove with the delete left in
CopyThenDelete(s, srcKey, request) == handleMove(s, srcKey, request)

handleCopy(s, srcKey, request) ==
    IF DestinationError(request) # Null THEN Result(DestinationError(request), s, <<>>)
    ELSE LET destKey == ResolveKey(request.dest.pathname)
             read == <<Call("get", srcKey)>>
             obj == StoreGet(s, srcKey)
         IN  IF ~ValidKey(srcKey) THEN Result(Unhandled("R2"), s, read)
             ELSE IF obj = Null
             THEN Result(Response(404, NoHeaders, Text("Not Found")), s, read)
             ELSE IF ~ValidKey(destKey)
             THEN Result(Unhandled("R2"), s, read \o <<Call("put", destKey)>>)
             ELSE Result(Response(201, NoHeaders, NoBody),
                         StorePut(s, destKey, obj.body),
                         read \o <<Call("put", destKey)>>)

\* handleDelete answering 404 when there is nothing to delete
DeleteOnlyExisting(s, key) ==
    IF ~ValidKey(key) THEN Result(Unhandled("R2"), s, <<Call("delete", key)>>)
    ELSE IF key \notin DOMAIN s
    THEN Result(Response(404, NoHeaders, Text("Not Found")), s, <<Call("delete", key)>>)
    ELSE Result(Response(204, NoHeaders, NoBody), StoreDelete(s, key), <<Call("delete", key)>>)

handleDelete(s, key) ==
    IF ~ValidKey(key) THEN Result(Unhandled("R2"), s, <<Call("delete", key)>>)
    ELSE Result(Response(204, NoHeaders, NoBody), StoreDelete(s, key), <<Call("delete", key)>>)

\* MKCOL that stores an empty object under key/ to stand for the directory
MkcolStoresMarker(s, key) ==
    Result(Response(201, NoHeaders, NoBody),
           StorePut(s, key \o <<"/">>, <<>>),
           <<Call("put", key \o <<"/">>)>>)

handleMkcol(s, key) == Result(Response(201, NoHeaders, NoBody), s, <<>>)

handleOptions(s) ==
    Result(Response(204,
                    ("Allow" :> "OPTIONS, GET, HEAD, PUT, DELETE, MKCOL, PROPFIND, MOVE, COPY")
                        @@ ("DAV" :> "1,2") @@ ("MS-Author-Via" :> "DAV"),
                    NoBody),
           s, <<>>)

\* ------------------------------------------------------------------ PROPFIND

\* Depth without the || "0" default
DepthNoDefault(request) == request.depth

\* request.headers.get("Depth") || "0"
Depth(request) == IF request.depth \in {Absent, ""} THEN "0" ELSE request.depth

\* Prefix that appends the separator without looking
PrefixAlwaysAppends(path) == path \o <<"/">>

\* path.endsWith("/") ? path : path + "/"
Prefix(path) == IF EndsWith(path, <<"/">>) THEN path ELSE path \o <<"/">>

\* buildPropResponse with the collection marker's ternary inverted
InvertedCollection(href, isCollection, obj) ==
    IF obj = Null
    THEN [href |-> href, isCollection |-> ~isCollection]
    ELSE [href |-> href, isCollection |-> ~isCollection,
          getcontentlength |-> obj.size, getetag |-> obj.etag]

\* One <d:response>: the href and the collection marker always, getcontentlength and
\* getetag only when there is an object (getlastmodified is not modelled).
buildPropResponse(href, isCollection, obj) ==
    IF obj = Null
    THEN [href |-> href, isCollection |-> isCollection]
    ELSE [href |-> href, isCollection |-> isCollection,
          getcontentlength |-> obj.size, getetag |-> obj.etag]

Multistatus(responses) ==
    Response(207, "Content-Type" :> "application/xml; charset=utf-8",
             [kind |-> "multistatus", responses |-> responses])

\* handlePropfind with the children built as the parent is, as collections
ChildrenAsCollections(s, path, request, listing) ==
    IF Depth(request) = "0"
    THEN LET obj == IF path # <<>> THEN StoreGet(s, path) ELSE Null
         IN  Result(Multistatus(<<buildPropResponse(request.pathname, obj = Null, obj)>>),
                    s,
                    IF path # <<>> THEN <<Call("get", path)>> ELSE <<>>)
    ELSE LET parent == buildPropResponse(Prefix(request.pathname), TRUE, Null)
             children == [i \in 1..Len(listing) |->
                            buildPropResponse(Namespace \o listing[i].key, TRUE, listing[i])]
         IN  Result(Multistatus(<<parent>> \o children), s,
                    <<ListCall(Prefix(path), listing)>>)

\* listing is what BUCKET.list({prefix}) returns when the handler calls it
handlePropfind(s, path, request, listing) ==
    IF Depth(request) = "0"
    THEN LET obj == IF path # <<>> THEN StoreGet(s, path) ELSE Null
         IN  Result(Multistatus(<<buildPropResponse(request.pathname, obj = Null, obj)>>),
                    s,
                    IF path # <<>> THEN <<Call("get", path)>> ELSE <<>>)
    ELSE LET parent == buildPropResponse(Prefix(request.pathname), TRUE, Null)
             children == [i \in 1..Len(listing) |->
                            buildPropResponse(Namespace \o listing[i].key, FALSE, listing[i])]
         IN  Result(Multistatus(<<parent>> \o children), s,
                    <<ListCall(Prefix(path), listing)>>)

\* ------------------------------------------------------------------ requests

Request(auth, method, pathname, dest, depth, body) ==
    [auth |-> auth, method |-> method, pathname |-> pathname,
     dest |-> dest, depth |-> depth, body |-> body]

GoodAuth == AuthValue("Basic", "dTpw")

Methods ==
    {"GET", "HEAD", "PUT", "MOVE", "COPY", "DELETE", "MKCOL", "PROPFIND", "OPTIONS", "PATCH"}

Under(rest) == Namespace \o rest

Outside == <<"/", "other", "/", "a">>

Bodies == {<<7>>, <<8, 9>>}

\* a request carries Destination, Depth and a body only where the method reads them
RequestsOf(auths, methods, paths, dests, depths, bodies) ==
    {Request(a, m, p, NoDest, Absent, <<>>) :
        a \in auths, m \in methods \ {"PUT", "MOVE", "COPY", "PROPFIND"}, p \in paths}
    \cup {Request(a, m, p, NoDest, Absent, b) :
            a \in auths, m \in methods \cap {"PUT"}, p \in paths, b \in bodies}
    \cup {Request(a, m, p, d, Absent, <<>>) :
            a \in auths, m \in methods \cap {"MOVE", "COPY"}, p \in paths, d \in dests}
    \cup {Request(a, m, p, NoDest, d, <<>>) :
            a \in auths, m \in methods \cap {"PROPFIND"}, p \in paths, d \in depths}

\* Spec, the object operations.  Paths: the root, a, a/a, an encoded and a doubled
\* leading slash, a malformed escape, a path outside the namespace.
Pathnames ==
    {Under(<<>>), Under(<<"a">>), Under(<<"a", "/", "a">>), Under(<<"%2F", "a">>),
     Under(<<"/", "a">>), Under(<<"%">>), Outside}

Destinations ==
    {NoDest, EmptyDest, RelativeDest}
        \cup {DestUrl(p) : p \in Pathnames}

Requests == RequestsOf({GoodAuth}, Methods, Pathnames, Destinations, {Absent, "1"}, Bodies)

\* SpecDav, PROPFIND over a populated bucket.  Paths: the root, a, aa, a/, a/a, a/a/a
\* and an encoded leading slash.
DavPathnames ==
    {Under(<<>>), Under(<<"a">>), Under(<<"a", "a">>), Under(<<"a", "/">>),
     Under(<<"a", "/", "a">>), Under(<<"a", "/", "a", "/", "a">>), Under(<<"%2F", "a">>)}

Depths == {Absent, "", "0", "1", "infinity"}

DavRequests ==
    RequestsOf({GoodAuth}, {"PROPFIND", "PUT", "DELETE"}, DavPathnames, {NoDest}, Depths, Bodies)

\* ------------------------------------------------------------------ fetch

NoRequest == Request(NoAuth, "", <<>>, NoDest, Absent, <<>>)
NoResponse == Response(0, NoHeaders, NoBody)
EmptyStore == [k \in {} |-> Null]

Init ==
    /\ store = EmptyStore
    /\ pre = EmptyStore
    /\ req = NoRequest
    /\ resp = NoResponse
    /\ ops = <<>>
    /\ pc = "idle"
    /\ got = Null
    /\ served = <<>>

\* the request r ends with result res
Finish(r, res) ==
    /\ Cardinality(DOMAIN res.store) <= MaxObjects
    /\ req' = r
    /\ resp' = res.resp
    /\ ops' = res.ops
    /\ pre' = store
    /\ store' = res.store
    /\ UNCHANGED <<pc, got, served>>

\* lines 4-22 let the request through to the switch
Routed(r) ==
    /\ Authenticated(r)
    /\ StartsWith(r.pathname, Namespace)
    /\ ~ResolveThrows(r.pathname)

Unauthorized(R) ==
    \E r \in R :
        /\ ~Authenticated(r)
        /\ Finish(r, Result(Response(401, "WWW-Authenticate" :> "Basic realm=\"Zotero WebDAV\"",
                                     Text("Unauthorized")), store, <<>>))

OutsideNamespace(R) ==
    \E r \in R :
        /\ ~StartsWith(r.pathname, Namespace)
        /\ Authenticated(r)
        /\ Finish(r, Result(Response(404, NoHeaders, Text("Not Found")), store, <<>>))

UndecodablePath(R) ==
    \E r \in R :
        /\ StartsWith(r.pathname, Namespace)
        /\ ResolveThrows(r.pathname)
        /\ Authenticated(r)
        /\ Finish(r, Result(Unhandled("URIError"), store, <<>>))

GetHead(R) ==
    \E r \in R :
        /\ r.method \in {"GET", "HEAD"} /\ Routed(r)
        /\ Finish(r, handleGetHead(store, ResolveKey(r.pathname), r.method))

Put(R) ==
    \E r \in R :
        /\ r.method = "PUT" /\ Routed(r)
        /\ Finish(r, handlePut(store, ResolveKey(r.pathname), r))

Move(R) ==
    \E r \in R :
        /\ r.method = "MOVE" /\ Routed(r)
        /\ Finish(r, handleMove(store, ResolveKey(r.pathname), r))

Copy(R) ==
    \E r \in R :
        /\ r.method = "COPY" /\ Routed(r)
        /\ Finish(r, handleCopy(store, ResolveKey(r.pathname), r))

Delete(R) ==
    \E r \in R :
        /\ r.method = "DELETE" /\ Routed(r)
        /\ Finish(r, handleDelete(store, ResolveKey(r.pathname)))

Mkcol(R) ==
    \E r \in R :
        /\ r.method = "MKCOL" /\ Routed(r)
        /\ Finish(r, handleMkcol(store, ResolveKey(r.pathname)))

Propfind(R) ==
    \E r \in R :
        /\ r.method = "PROPFIND" /\ Routed(r)
        /\ \E listing \in StoreList(store, Prefix(ResolveKey(r.pathname))) :
              Finish(r, handlePropfind(store, ResolveKey(r.pathname), r, listing))

Options(R) ==
    \E r \in R :
        /\ r.method = "OPTIONS" /\ Routed(r)
        /\ Finish(r, handleOptions(store))

MethodNotAllowed(R) ==
    \E r \in R :
        /\ r.method \notin {"GET", "HEAD", "PUT", "MOVE", "COPY", "DELETE", "MKCOL",
                            "PROPFIND", "OPTIONS"}
        /\ Routed(r)
        /\ Finish(r, Result(Response(405, NoHeaders, Text("Method Not Allowed")), store, <<>>))

Next ==
    \/ OutsideNamespace(Requests)
    \/ UndecodablePath(Requests)
    \/ GetHead(Requests)
    \/ Put(Requests)
    \/ Move(Requests)
    \/ Copy(Requests)
    \/ Delete(Requests)
    \/ Mkcol(Requests)
    \/ Propfind(Requests)
    \/ Options(Requests)
    \/ MethodNotAllowed(Requests)

Spec == Init /\ [][Next]_vars

NextDav ==
    \/ Propfind(DavRequests)
    \/ Put(DavRequests)
    \/ Delete(DavRequests)

SpecDav == Init /\ [][NextDav]_vars

\* SpecAuth, the credential gate: every kind of Authorization header on every method,
\* inside and outside the namespace.
AuthHeaders ==
    {NoAuth, EmptyAuth, AuthValue("Bearer", "dTpw"), AuthValue("basic", "dTpw")}
        \cup {AuthValue("Basic", e) :
                e \in {"dTpw", "dTp4", "eDpw", "dXA=", "dTpwOnA=", "", "u:p"}}

AuthRequests ==
    RequestsOf(AuthHeaders, Methods, {Under(<<"a">>), Under(<<"%">>), Outside},
               {NoDest, DestUrl(Under(<<"a", "/", "a">>))}, {Absent}, {<<7>>})

NextAuth ==
    \/ Unauthorized(AuthRequests)
    \/ OutsideNamespace(AuthRequests)
    \/ UndecodablePath(AuthRequests)
    \/ GetHead(AuthRequests)
    \/ Put(AuthRequests)
    \/ Move(AuthRequests)
    \/ Copy(AuthRequests)
    \/ Delete(AuthRequests)
    \/ Mkcol(AuthRequests)
    \/ Propfind(AuthRequests)
    \/ Options(AuthRequests)
    \/ MethodNotAllowed(AuthRequests)

SpecAuth == Init /\ [][NextAuth]_vars

\* ------------------------------------------------------------------ a MOVE call by call
\* One MOVE is served one bucket call at a time (each await of handleMove is a step),
\* while other requests are served between its calls.  A bucket call is atomic and may
\* throw; a call that throws has no effect on the bucket, is not retried, and ends
\* the request as an unhandled exception.  req, resp, ops and pre are those of the
\* MOVE; resp is NoResponse while it is in flight.

\* how many requests are served beside the MOVE
MaxServed == 1

MovePaths == {Under(<<"a">>), Under(<<"a", "a">>)}

MoveRequests ==
    RequestsOf({GoodAuth}, {"MOVE"}, MovePaths,
               {NoDest} \cup {DestUrl(p) : p \in MovePaths}, {Absent}, {<<>>})

BesideRequests ==
    RequestsOf({GoodAuth}, {"PUT", "DELETE", "GET"}, MovePaths, {NoDest}, {Absent}, Bodies)

\* the buckets that PUTs to the given keys leave
BucketsOver(keys) ==
    UNION {{[k \in K |-> NewObject(k, f[k])] : f \in [K -> Bodies]} : K \in SUBSET keys}

InitMove ==
    /\ store \in BucketsOver({ResolveKey(p) : p \in MovePaths})
    /\ pre = store
    /\ req = NoRequest
    /\ resp = NoResponse
    /\ ops = <<>>
    /\ pc = "idle"
    /\ got = Null
    /\ served = <<>>

\* whether a bucket call on key returns (TRUE) or throws (FALSE)
CallOutcomes(key) == IF ValidKey(key) THEN BOOLEAN ELSE {FALSE}

\* fetch lets the MOVE through and handleMove checks its Destination
MoveArrives ==
    /\ pc = "idle"
    /\ \E r \in MoveRequests :
          /\ Routed(r)
          /\ req' = r
          /\ pre' = store
          /\ ops' = <<>>
          /\ IF DestinationError(r) # Null
             THEN resp' = DestinationError(r) /\ pc' = "done"
             ELSE resp' = NoResponse /\ pc' = "get"
    /\ UNCHANGED <<store, got, served>>

\* const obj = await env.BUCKET.get(srcKey); if (!obj) 404
MoveGet ==
    /\ pc = "get"
    /\ LET srcKey == ResolveKey(req.pathname)
       IN  \E ok \in CallOutcomes(srcKey) :
              /\ ops' = Append(ops, Call("get", srcKey))
              /\ IF ~ok
                 THEN resp' = Unhandled("R2") /\ pc' = "done" /\ got' = got
                 ELSE IF StoreGet(store, srcKey) = Null
                 THEN /\ resp' = Response(404, NoHeaders, Text("Not Found"))
                      /\ pc' = "done"
                      /\ got' = got
                 ELSE resp' = resp /\ pc' = "put" /\ got' = StoreGet(store, srcKey)
    /\ UNCHANGED <<store, pre, req, served>>

\* MovePut with the put in a try block whose catch goes on
MovePutSwallowsFailure ==
    /\ pc = "put"
    /\ LET destKey == ResolveKey(req.dest.pathname)
       IN  \E ok \in CallOutcomes(destKey) :
              /\ ops' = Append(ops, Call("put", destKey))
              /\ store' = IF ok THEN StorePut(store, destKey, got.body) ELSE store
              /\ pc' = "delete"
    /\ UNCHANGED <<pre, req, resp, got, served>>

\* MovePut without its await: the delete is issued while the write has not landed
MovePutNotAwaited ==
    /\ pc = "put"
    /\ LET destKey == ResolveKey(req.dest.pathname)
       IN  /\ ops' = Append(ops, Call("put", destKey))
           /\ pc' = "delete"
    /\ UNCHANGED <<store, pre, req, resp, got, served>>

\* await env.BUCKET.put(destKey, obj.body, ...)
MovePut ==
    /\ pc = "put"
    /\ LET destKey == ResolveKey(req.dest.pathname)
       IN  \E ok \in CallOutcomes(destKey) :
              /\ ops' = Append(ops, Call("put", destKey))
              /\ IF ok
                 THEN /\ store' = StorePut(store, destKey, got.body)
                      /\ pc' = "delete"
                      /\ resp' = resp
                 ELSE /\ store' = store
                      /\ pc' = "done"
                      /\ resp' = Unhandled("R2")
    /\ UNCHANGED <<pre, req, got, served>>

\* MoveDelete that answers 201 and leaves the source
MoveDeleteSkipped ==
    /\ pc = "delete"
    /\ pc' = "done"
    /\ resp' = Response(201, NoHeaders, NoBody)
    /\ UNCHANGED <<store, pre, req, ops, got, served>>

\* await env.BUCKET.delete(srcKey); return 201
MoveDelete ==
    /\ pc = "delete"
    /\ LET srcKey == ResolveKey(req.pathname)
       IN  \E ok \in CallOutcomes(srcKey) :
              /\ ops' = Append(ops, Call("delete", srcKey))
              /\ pc' = "done"
              /\ IF ok
                 THEN /\ store' = StoreDelete(store, srcKey)
                      /\ resp' = Response(201, NoHeaders, NoBody)
                 ELSE /\ store' = store
                      /\ resp' = Unhandled("R2")
    /\ UNCHANGED <<pre, req, got, served>>

\* another request r is served, start to end, with result res; it is recorded with
\* the place the MOVE was at
Beside(r, res) ==
    /\ Len(served) < MaxServed
    /\ store' = res.store
    /\ served' = Append(served, [req |-> r, resp |-> res.resp, at |-> pc])
    /\ UNCHANGED <<pre, req, resp, ops, pc, got>>

PutBeside ==
    \E r \in BesideRequests :
        /\ r.method = "PUT" /\ Routed(r)
        /\ Beside(r, handlePut(store, ResolveKey(r.pathname), r))

DeleteBeside ==
    \E r \in BesideRequests :
        /\ r.method = "DELETE" /\ Routed(r)
        /\ Beside(r, handleDelete(store, ResolveKey(r.pathname)))

GetBeside ==
    \E r \in BesideRequests :
        /\ r.method = "GET" /\ Routed(r)
        /\ Beside(r, handleGetHead(store, ResolveKey(r.pathname), r.method))

NextMove ==
    \/ MoveArrives
    \/ MoveGet
    \/ MovePut
    \/ MoveDelete
    \/ PutBeside
    \/ DeleteBeside
    \/ GetBeside

SpecMove == InitMove /\ [][NextMove]_vars

\* ------------------------------------------------------------------ properties

\* the key the last request resolved to
ReqKey == ResolveKey(req.pathname)

\* the last request reached the handler of method m
RoutedTo(m) == req.method = m /\ Routed(req)

\* ... and names an object key (the bucket refuses the empty name)
Keyed(m) == RoutedTo(m) /\ ValidKey(ReqKey)

\* the Destination of the last request is a URL under the namespace that resolves to
\* an object key
DestResolves ==
    /\ req.dest.kind = "absolute"
    /\ StartsWith(req.dest.pathname, Namespace)
    /\ ~ResolveThrows(req.dest.pathname)
    /\ ValidKey(ResolveKey(req.dest.pathname))

DestKey == ResolveKey(req.dest.pathname)

\* request r is a mutating request on key k
Mutates(r, k) ==
    LET key == ResolveKey(r.pathname)
        dkey == IF r.dest.kind = "absolute" /\ ~ResolveThrows(r.dest.pathname)
                THEN ResolveKey(r.dest.pathname) ELSE <<>>
    IN  \/ r.method \in {"PUT", "DELETE", "MOVE"} /\ key = k
        \/ r.method \in {"MOVE", "COPY"} /\ dkey = k

\* what a GET of key k answers in bucket s
Get(s, k) == handleGetHead(s, k, "GET").resp

\* GET of k in s answers 200 with body b
GetReturns(s, k, b) == Get(s, k).status = 200 /\ Get(s, k).body = Bytes(b)

\* C1: a PUT of b to key k answers 201 and the bucket records b there; what the bucket
\* holds at a key stays until a request that mutates that key; a GET of k answers 200
\* with the recorded body, its size as Content-Length and its etag as ETag, and 404
\* when k holds no object.  Together: PUT(k,b), then any requests that do not mutate
\* k, then GET(k) gives exactly b.
C1_PutThenGet ==
    /\ Keyed("PUT") =>
          /\ resp.status = 201
          /\ ReqKey \in DOMAIN store
          /\ store[ReqKey].body = req.body
    /\ \A k \in (DOMAIN pre) \cup (DOMAIN store) :
          ~Mutates(req, k) => StoreGet(store, k) = StoreGet(pre, k)
    /\ (Keyed("GET") /\ ReqKey \in DOMAIN pre) =>
          /\ resp.status = 200
          /\ resp.body = Bytes(pre[ReqKey].body)
          /\ resp.headers["Content-Length"] = pre[ReqKey].size
          /\ resp.headers["ETag"] = pre[ReqKey].etag
    /\ (Keyed("GET") /\ ReqKey \notin DOMAIN pre) => resp.status = 404

\* a GET answered with the two-byte body some earlier PUT stored
C1_Witness ==
    /\ Keyed("GET")
    /\ resp.status = 200
    /\ resp.body = Bytes(<<8, 9>>)
    /\ resp.headers["Content-Length"] = 2

\* C2: a MOVE of s (holding b) to any key d of the namespace, d = s included, answers
\* 201, and afterwards GET(d) gives b and GET(s) gives 404.
C2_MoveRelocates ==
    (Keyed("MOVE") /\ ReqKey \in DOMAIN pre /\ DestResolves) =>
        /\ resp.status = 201
        /\ GetReturns(store, DestKey, pre[ReqKey].body)
        /\ Get(store, ReqKey).status = 404

\* the same for d # s only (not a claim of the specification: it shows where C2 fails)
C2_MoveToAnotherKey ==
    (Keyed("MOVE") /\ ReqKey \in DOMAIN pre /\ DestResolves /\ DestKey # ReqKey) =>
        /\ resp.status = 201
        /\ GetReturns(store, DestKey, pre[ReqKey].body)
        /\ Get(store, ReqKey).status = 404

\* C3: a COPY of s (holding b) to any key d of the namespace, d = s included, answers
\* 201, and afterwards GET(d) gives b and GET(s) still gives b; no COPY request ever
\* calls delete on the bucket.
C3_CopyKeepsSource ==
    /\ (Keyed("COPY") /\ ReqKey \in DOMAIN pre /\ DestResolves) =>
          /\ resp.status = 201
          /\ GetReturns(store, DestKey, pre[ReqKey].body)
          /\ GetReturns(store, ReqKey, pre[ReqKey].body)
    /\ req.method = "COPY" => \A i \in 1..Len(ops) : ops[i].op # "delete"

\* a COPY to another key that was answered 201, both keys now holding the content
C3_Witness ==
    /\ Keyed("COPY") /\ DestResolves /\ DestKey # ReqKey
    /\ ReqKey \in DOMAIN pre
    /\ resp.status = 201
    /\ GetReturns(store, DestKey, pre[ReqKey].body)

\* a COPY of a key onto itself, answered 201
C3_WitnessSelf ==
    /\ Keyed("COPY") /\ DestResolves /\ DestKey = ReqKey
    /\ ReqKey \in DOMAIN pre
    /\ resp.status = 201

BadCredentials(h) ==
    \/ h.kind # "value"
    \/ h.scheme # "Basic"
    \/ AtobThrows(h.encoded)
    \/ ~(\E i \in 1..Len(Atob(h.encoded)) : Atob(h.encoded)[i] = ":")
    \/ Atob(h.encoded) # WEBDAV_USER \o <<":">> \o WEBDAV_PASS

\* C5: a request without the configured credentials (no header, another scheme, not
\* base64, no ':', another user or password) is answered 401 with a WWW-Authenticate
\* challenge and makes no bucket call, whatever its method and path and whatever
\* requests were served before it.
C5_BadCredentialsRejected ==
    (req # NoRequest /\ BadCredentials(req.auth)) =>
        /\ resp.status = 401
        /\ "WWW-Authenticate" \in DOMAIN resp.headers
        /\ ops = <<>>
        /\ store = pre

\* a PUT with the right user and a wrong password, rejected after an authenticated
\* PUT had filled the bucket
C5_Witness ==
    /\ req.method = "PUT"
    /\ req.auth = AuthValue("Basic", "dTp4")
    /\ resp.status = 401
    /\ store # EmptyStore

\* C6: DELETE of a key answers 204 whether or not the key held an object, leaves no
\* object at the key, and a second DELETE of it answers 204 again and changes nothing.
C6_DeleteIdempotent ==
    Keyed("DELETE") =>
        /\ resp.status = 204
        /\ ReqKey \notin DOMAIN store
        /\ handleDelete(store, ReqKey).resp.status = 204
        /\ handleDelete(store, ReqKey).store = store

\* a DELETE of a key that held nothing, answered 204
C6_Witness ==
    /\ Keyed("DELETE")
    /\ ReqKey \notin DOMAIN pre
    /\ pre # EmptyStore
    /\ resp.status = 204

\* the <d:response> entries of the last response
Entries == resp.body.responses

\* the key an entry's href names
EntryKey(e) == SubSeq(e.href, Len(Namespace) + 1, Len(e.href))

HasNoProps(e) == DOMAIN e = {"href", "isCollection"}

\* C7: a PROPFIND with Depth 0 answers 207 with one entry, for the requested
\* resource: not a collection and with the object's size and etag when the key holds
\* an object, a collection with neither when it holds none.  The bucket is not changed.
C7_DepthZero ==
    (RoutedTo("PROPFIND") /\ req.depth = "0") =>
        /\ resp.status = 207
        /\ Len(Entries) = 1
        /\ Entries[1].href = req.pathname
        /\ ReqKey \in DOMAIN pre =>
              /\ ~Entries[1].isCollection
              /\ "getcontentlength" \in DOMAIN Entries[1]
              /\ "getetag" \in DOMAIN Entries[1]
              /\ Entries[1].getcontentlength = pre[ReqKey].size
              /\ Entries[1].getetag = pre[ReqKey].etag
        /\ ReqKey \notin DOMAIN pre =>
              /\ Entries[1].isCollection
              /\ HasNoProps(Entries[1])
        /\ store = pre

\* a Depth 0 PROPFIND of a key that holds the two-byte object
C7_Witness ==
    /\ RoutedTo("PROPFIND") /\ req.depth = "0"
    /\ ReqKey \in DOMAIN pre
    /\ Len(Entries) = 1
    /\ ~Entries[1].isCollection
    /\ Entries[1].getcontentlength = 2

\* The last response is a Depth 1 listing under prefix: 207, first the requested
\* resource as a collection without size or etag, then one entry per object whose
\* key starts with prefix, not a collection, with that object's size and etag, in the
\* order of the one list call.
DepthOneListing(prefix) ==
    LET under == {k \in DOMAIN pre : StartsWith(k, prefix)}
    IN  /\ resp.status = 207
        /\ Len(Entries) = 1 + Cardinality(under)
        /\ Entries[1].isCollection
        /\ HasNoProps(Entries[1])
        /\ Entries[1].href \in {req.pathname, req.pathname \o <<"/">>}
        /\ Len(ops) = 1
        /\ ops[1].op = "list"
        /\ Len(ops[1].result) = Len(Entries) - 1
        /\ \A i \in 1..Len(ops[1].result) :
              LET o == ops[1].result[i]
              IN  /\ o.key \in under
                  /\ pre[o.key] = o
                  /\ Entries[i + 1] = [href |-> Namespace \o o.key, isCollection |-> FALSE,
                                       getcontentlength |-> o.size, getetag |-> o.etag]
        /\ \A k \in under : \E i \in 2..Len(Entries) : EntryKey(Entries[i]) = k

BelowChildren(k, p) ==
    LET parent == IF EndsWith(p, <<"/">>) THEN p ELSE p \o <<"/">>
    IN  /\ StartsWith(k, parent)
        /\ \E j \in (Len(parent) + 1)..(Len(k) - 1) : k[j] = "/"

\* C9: a PROPFIND with Depth 1 on key p emits no entry for an object two or more
\* segments below p.
C9_NoGrandchildren ==
    (RoutedTo("PROPFIND") /\ req.depth = "1") =>
        \A i \in 2..Len(Entries) : ~BelowChildren(EntryKey(Entries[i]), ReqKey)

\* C10: a PROPFIND whose Depth header is absent or anything other than "1" answers
\* with the one entry of the requested resource and makes no list call.
C10_OtherDepthsAreZero ==
    (RoutedTo("PROPFIND") /\ req.depth # "1") =>
        /\ Len(Entries) = 1
        /\ Entries[1].href = req.pathname
        /\ \A i \in 1..Len(ops) : ops[i].op # "list"

\* C10 as amended: only an absent, empty or "0" Depth is handled as Depth 0 (one
\* entry, no list call); every other value is handled as Depth 1 is (one list call,
\* the same response as with Depth: 1).
C10_OnlyZeroIsDepthZero ==
    RoutedTo("PROPFIND") =>
        /\ req.depth \in {Absent, "", "0"} =>
              /\ Len(Entries) = 1
              /\ Entries[1].href = req.pathname
              /\ \A i \in 1..Len(ops) : ops[i].op # "list"
        /\ req.depth \notin {Absent, "", "0"} =>
              /\ Len(ops) = 1
              /\ ops[1].op = "list"
              /\ Len(Entries) = 1 + Cardinality({k \in DOMAIN pre : StartsWith(k, ops[1].key)})
              /\ resp = handlePropfind(pre, ReqKey, [req EXCEPT !.depth = "1"],
                                       ops[1].result).resp

\* a PROPFIND with Depth: infinity answered with the parent and an object below it
C10_Witness ==
    /\ RoutedTo("PROPFIND") /\ req.depth = "infinity"
    /\ Len(Entries) = 2
    /\ ops[1].op = "list"

\* the key entry i of the last PROPFIND response stands for: the requested key for
\* the first entry, the listed object's key for the others
EntryKeyAt(i) == IF i = 1 THEN ReqKey ELSE EntryKey(Entries[i])

\* C11: in every PROPFIND response, at Depth 0 and at Depth 1, every entry (the
\* requested resource and each child) is marked as a collection exactly when the
\* bucket holds no object at that entry's key at the time of the request.
C11_CollectionIffNoObject ==
    RoutedTo("PROPFIND") =>
        \A i \in 1..Len(Entries) :
            Entries[i].isCollection <=> (EntryKeyAt(i) \notin DOMAIN pre)

\* C11 as amended: the equivalence holds for the one entry of a Depth 0 response and
\* for the child entries of a Depth 1 response (each stands for a listed object and
\* is not a collection); the first entry of a Depth 1 response, the requested
\* resource, is marked as a collection whether or not the bucket holds an object at
\* its key.
C11_CollectionMarks ==
    RoutedTo("PROPFIND") =>
        /\ req.depth \in {Absent, "", "0"} =>
              /\ Len(Entries) = 1
              /\ Entries[1].isCollection <=> (ReqKey \notin DOMAIN pre)
        /\ req.depth \notin {Absent, "", "0"} =>
              /\ Entries[1].isCollection
              /\ \A i \in 2..Len(Entries) :
                    /\ ~Entries[i].isCollection
                    /\ EntryKeyAt(i) \in DOMAIN pre

\* a Depth 1 PROPFIND of a key that holds an object and has an object below it: the
\* requested resource is marked as a collection, the child is not
C11_Witness ==
    /\ RoutedTo("PROPFIND") /\ req.depth = "1"
    /\ ReqKey \in DOMAIN pre
    /\ Len(Entries) = 2
    /\ Entries[1].isCollection
    /\ ~Entries[2].isCollection

SupportedMethods ==
    {"GET", "HEAD", "PUT", "DELETE", "MKCOL", "MOVE", "COPY", "PROPFIND", "OPTIONS"}

\* C12: an authenticated request is rejected before any bucket call: a path outside
\* /zotero/ is answered 404 whatever the method, supported or not, and a path under
\* /zotero/ with a method outside the nine supported ones is answered 405; in both
\* cases no get, put, delete or list is made.
C12_RejectedBeforeStore ==
    (req # NoRequest /\ Authenticated(req)) =>
        /\ ~StartsWith(req.pathname, Namespace) =>
              /\ resp.status = 404
              /\ ops = <<>>
              /\ store = pre
        /\ (StartsWith(req.pathname, Namespace) /\ req.method \notin SupportedMethods) =>
              /\ resp.status = 405
              /\ ops = <<>>
              /\ store = pre

\* the same with the 405 case for decodable paths only (not a claim of the
\* specification: it shows where C12 fails); an undecodable path ends as an
\* exception, also without a bucket call
C12_DecodablePathsRejected ==
    (req # NoRequest /\ Authenticated(req)) =>
        /\ ~StartsWith(req.pathname, Namespace) =>
              (resp.status = 404 /\ ops = <<>> /\ store = pre)
        /\ (Routed(req) /\ req.method \notin SupportedMethods) =>
              (resp.status = 405 /\ ops = <<>> /\ store = pre)
        /\ (StartsWith(req.pathname, Namespace) /\ ResolveThrows(req.pathname)) =>
              (resp = Unhandled("URIError") /\ ops = <<>> /\ store = pre)

\* the keys at which the last request changed the bucket: an object appeared, went
\* away, or has another body, size or etag
Changed == {k \in DOMAIN pre \cup DOMAIN store : StoreGet(store, k) # StoreGet(pre, k)}

\* C13: a request changes the bucket only at the keys it names.  MKCOL is answered
\* 201 and, like GET, HEAD, PROPFIND, OPTIONS and every rejected request, leaves the
\* whole bucket as it was, so no object is created to stand for a directory; PUT and
\* DELETE of k change nothing but k, COPY of s to d nothing but d, MOVE of s to d
\* nothing but s and d.  Every other key keeps its object, with body, size and etag.
C13_OnlyNamedKeysChange ==
    req # NoRequest =>
        /\ RoutedTo("MKCOL") => (resp.status = 201 /\ ops = <<>>)
        /\ req.method \notin {"PUT", "DELETE", "COPY", "MOVE"} => store = pre
        /\ ~Routed(req) => store = pre
        /\ (RoutedTo("PUT") \/ RoutedTo("DELETE")) => Changed \subseteq {ReqKey}
        /\ RoutedTo("COPY") => Changed \subseteq {DestKey}
        /\ RoutedTo("MOVE") => Changed \subseteq {ReqKey, DestKey}

\* a MKCOL of a key that holds nothing, answered 201, after which the bucket holds
\* the objects it held and nothing at that key or below it
C13_Witness ==
    /\ RoutedTo("MKCOL")
    /\ resp.status = 201
    /\ pre # EmptyStore
    /\ ReqKey \notin DOMAIN pre
    /\ store = pre

\* the key the specification gives a path: the remainder after the namespace,
\* percent-decoded, then without its leading slashes
DecodedThenStripped(pathname) ==
    StripLeadingSlashes(DecodeURIComponent(StripNamespace(pathname)))

\* the keys of the bucket calls of the last request
CalledKeys == {ops[i].key : i \in 1..Len(ops)}

\* C16: for a request path under /zotero/ and a MOVE/COPY Destination path under
\* /zotero/, the key used with the bucket is the percent-decoded remainder of the
\* path with its leading slashes then stripped; no such key begins with "/", also
\* when the remainder starts with an encoded slash (%2F).
C16_KeyDecodedThenStripped ==
    /\ (Routed(req) /\ req.method \in {"GET", "HEAD", "PUT", "DELETE"}) =>
          /\ CalledKeys = {DecodedThenStripped(req.pathname)}
          /\ \A k \in CalledKeys : k = <<>> \/ k[1] # "/"
    /\ ((RoutedTo("MOVE") \/ RoutedTo("COPY")) /\ resp.status = 201) =>
          /\ ops[1] = Call("get", DecodedThenStripped(req.pathname))
          /\ ops[2] = Call("put", DecodedThenStripped(req.dest.pathname))
          /\ \A k \in CalledKeys : k = <<>> \/ k[1] # "/"

\* the same for paths without an encoded slash (not a claim of the specification: it
\* shows where C16 fails)
C16_WithoutEncodedSlash ==
    (\A i \in 1..Len(req.pathname) : req.pathname[i] # "%2F")
    /\ (\A i \in 1..Len(req.dest.pathname) : req.dest.pathname[i] # "%2F")
        => C16_KeyDecodedThenStripped

\* key k is one path segment
SingleSegment(k) == k # <<>> /\ \A i \in 1..Len(k) : k[i] # "/"

\* C18: every object a PUT to /zotero/<k> created, k one segment, is reported as a
\* child entry by a later Depth 1 PROPFIND of the namespace root /zotero/ (resolved
\* key empty), as it is below any other parent.
C18_RootListsPutObjects ==
    (RoutedTo("PROPFIND") /\ req.depth = "1" /\ ReqKey = <<>>) =>
        \A k \in DOMAIN pre :
            SingleSegment(k) => \E i \in 2..Len(Entries) : EntryKey(Entries[i]) = k

\* the last request is a MOVE or COPY of a key that held an object to another key
\* that held one too
OntoExisting ==
    /\ RoutedTo("MOVE") \/ RoutedTo("COPY")
    /\ DestResolves
    /\ DestKey # ReqKey
    /\ ReqKey \in DOMAIN pre
    /\ DestKey \in DOMAIN pre

\* C19: MOVE and COPY overwrite an existing destination unconditionally: when d, other
\* than s, holds c and s holds b, the request is answered 201 and d then holds b; the
\* bucket is never asked about d before the write (one get of s, one put of d, and for
\* MOVE the delete of s), and c is kept nowhere: after the request only objects that
\* the request did not touch can still have the body c.
C19_OverwritesDestination ==
    OntoExisting =>
        LET b == pre[ReqKey].body
            c == pre[DestKey].body
        IN  /\ resp.status = 201
            /\ store[DestKey] = NewObject(DestKey, b)
            /\ ops = <<Call("get", ReqKey), Call("put", DestKey)>>
                     \o (IF req.method = "MOVE" THEN <<Call("delete", ReqKey)>> ELSE <<>>)
            /\ c # b =>
                  \A k \in DOMAIN store :
                      store[k].body = c =>
                          (k \notin {ReqKey, DestKey} /\ k \in DOMAIN pre /\ pre[k] = store[k])

\* a MOVE onto a key that held another body, answered 201: the destination holds the
\* moved body and the body it held is in no object of the bucket
C19_Witness ==
    /\ OntoExisting
    /\ req.method = "MOVE"
    /\ pre[DestKey].body # pre[ReqKey].body
    /\ resp.status = 201
    /\ \A k \in DOMAIN store : store[k].body # pre[DestKey].body

\* a MOVE of s to another key d passed its Destination checks and is in flight or over
MoveToOther ==
    /\ pc # "idle"
    /\ req.method = "MOVE"
    /\ DestinationError(req) = Null
    /\ ReqKey # DestKey

\* the requests served since the MOVE arrived wrote nothing
NoWriteBeside ==
    \A i \in 1..Len(served) : served[i].at # "idle" => served[i].req.method = "GET"

\* the MOVE ended as an unhandled exception thrown by its call op
Failed(op) ==
    /\ pc = "done"
    /\ resp = Unhandled("R2")
    /\ ops # <<>>
    /\ ops[Len(ops)].op = op

\* a MOVE served call by call, with no write beside it and no call that throws, ends
\* as handleMove says
MoveStepsAgree ==
    (pc = "done" /\ NoWriteBeside /\ resp # Unhandled("R2")) =>
        /\ resp = handleMove(pre, ReqKey, req).resp
        /\ store = handleMove(pre, ReqKey, req).store
        /\ ops = handleMove(pre, ReqKey, req).ops

\* C14: when a bucket call throws during a MOVE of s to d (s # d), no content is lost
\* and nothing is rolled back.  If the put to d throws, the delete of s is never
\* issued and the bucket is as it was; if the put returns and the delete of s throws,
\* s and d both hold the moved body and the request ends as an unhandled exception,
\* not 201.  The delete is issued only after the put has returned: the calls are get,
\* put, delete in that order, each at most once, and d holds the body when the
\* delete is issued.  (Bucket states are compared when no other request wrote since
\* the MOVE arrived.)
C14_FailedMoveLosesNothing ==
    MoveToOther =>
        /\ Failed("get") => (ops = <<Call("get", ReqKey)>> /\ (NoWriteBeside => store = pre))
        /\ Failed("put") =>
              /\ ops = <<Call("get", ReqKey), Call("put", DestKey)>>
              /\ NoWriteBeside => store = pre
        /\ Failed("delete") =>
              /\ resp.status # 201
              /\ NoWriteBeside =>
                    /\ store = StorePut(pre, DestKey, pre[ReqKey].body)
                    /\ store[ReqKey] = pre[ReqKey]
                    /\ store[DestKey].body = pre[ReqKey].body
        /\ pc = "delete" =>
              /\ ops = <<Call("get", ReqKey), Call("put", DestKey)>>
              /\ resp = NoResponse
              /\ NoWriteBeside => StoreGet(store, DestKey) = NewObject(DestKey, got.body)
        /\ (\E i \in 1..Len(ops) : ops[i].op = "delete") =>
              ops = <<Call("get", ReqKey), Call("put", DestKey), Call("delete", ReqKey)>>
        /\ resp.status = 201 => Len(ops) = 3

\* the delete of s threw after the put to d: the request ended as an unhandled
\* exception and both keys hold the body
C14_Witness ==
    /\ MoveToOther
    /\ Failed("delete")
    /\ NoWriteBeside
    /\ ReqKey \in DOMAIN store
    /\ DestKey \in DOMAIN store
    /\ store[DestKey].body = store[ReqKey].body
    /\ DestKey \notin DOMAIN pre

\* a request served while the MOVE was between its get and its end wrote s or d
Interfered ==
    \E i \in 1..Len(served) :
        /\ served[i].at \in {"put", "delete", "done"}
        /\ served[i].req.method \in {"PUT", "DELETE"}
        /\ ResolveKey(served[i].req.pathname) \in {ReqKey, DestKey}

\* key k holds an object with body b
Holds(k, b) == k \in DOMAIN store /\ store[k].body = b

\* C15: while a MOVE of s to d (s # d) is in flight, with no other request writing s
\* or d, every bucket state from its get on has the moved body at s or at d: at s
\* before the put, at both between the put and the delete, which a reader served
\* then can see, and at d after the delete.  A state with the body at neither is
\* reached only when another request wrote one of the two keys meanwhile.
C15_BodyAtSourceOrDestination ==
    (MoveToOther /\ got # Null /\ ~Interfered) =>
        /\ Holds(ReqKey, got.body) \/ Holds(DestKey, got.body)
        /\ pc = "put" => Holds(ReqKey, got.body)
        /\ pc = "delete" => (Holds(ReqKey, got.body) /\ Holds(DestKey, got.body))
        /\ (pc = "done" /\ resp.status = 201) =>
              (Holds(DestKey, got.body) /\ ReqKey \notin DOMAIN store)

\* a GET of d served between the MOVE's put and its delete answered 200 with the
\* moved body while s still held it
C15_Witness ==
    /\ MoveToOther
    /\ pc = "delete"
    /\ ~Interfered
    /\ DestKey \notin DOMAIN pre
    /\ Holds(ReqKey, got.body)
    /\ \E i \in 1..Len(served) :
          /\ served[i].at = "delete"
          /\ served[i].req.method = "GET"
          /\ ResolveKey(served[i].req.pathname) = DestKey
          /\ served[i].resp.status = 200
          /\ served[i].resp.body = Bytes(got.body)

\* a DELETE of d served between the MOVE's put and its delete: the MOVE is answered
\* 201 and neither key holds an object
C15_NeitherAfterDelete ==
    /\ MoveToOther
    /\ pc = "done" /\ resp.status = 201
    /\ Interfered
    /\ served[1].req.method = "DELETE"
    /\ ReqKey \notin DOMAIN store
    /\ DestKey \notin DOMAIN store

\* the MOVE, to another key, and one PUT to its source, served while the MOVE was in
\* flight, were the only requests and both were answered 201
MoveAndPutAnswered ==
    /\ pc = "done"
    /\ MoveToOther
    /\ resp.status = 201
    /\ Len(served) = 1
    /\ served[1].req.method = "PUT"
    /\ ResolveKey(served[1].req.pathname) = ReqKey
    /\ served[1].resp.status = 201
    /\ served[1].at \in {"get", "put", "delete"}

\* the buckets the two requests leave when served one after the other, in the
\* orders in which both are answered 201
SequentialOutcomes ==
    LET put == served[1].req
        moveFirst == handleMove(pre, ReqKey, req)
        putFirst == handlePut(pre, ReqKey, put)
    IN  {handlePut(moveFirst.store, ReqKey, put).store : x \in {y \in {1} : moveFirst.resp.status = 201}}
        \cup {handleMove(putFirst.store, ReqKey, req).store}

\* C17: a MOVE of s to d (s # d) served concurrently with a PUT of b2 to s, both answered 201
\* and with no other request, leaves a bucket that one of the two sequential orders
\* leaves (MOVE then PUT: d holds the old body and s holds b2; PUT then MOVE: d holds
\* b2 and s holds nothing); b2 is never missing from both s and d.
C17_MoveAndPutSerializable ==
    MoveAndPutAnswered =>
        /\ store \in SequentialOutcomes
        /\ Holds(ReqKey, served[1].req.body) \/ Holds(DestKey, served[1].req.body)

\* C17 as amended (s # d): the bucket is one that a sequential order leaves, or, when the PUT
\* is served between the MOVE's get of s and its delete of s, the one the MOVE alone
\* leaves: d holds the old body, s holds nothing, and b2, acknowledged with 201, is
\* in neither.
C17_SerializableOrPutLost ==
    MoveAndPutAnswered =>
        /\ store \in SequentialOutcomes \cup {handleMove(pre, ReqKey, req).store}
        /\ store \notin SequentialOutcomes =>
              /\ served[1].at \in {"put", "delete"}
              /\ Holds(DestKey, pre[ReqKey].body)
              /\ ReqKey \notin DOMAIN store
              /\ ~Holds(DestKey, served[1].req.body)

\* the PUT of another body was served between the MOVE's get and its put: both were
\* answered 201, d holds the old body and the PUT's body is in no object
C17_Witness ==
    /\ MoveAndPutAnswered
    /\ served[1].at = "put"
    /\ store \notin SequentialOutcomes
    /\ \A k \in DOMAIN store : store[k].body # served[1].req.body

====
